---- MODULE Spec2Model ----
(***************************************************************************)
(* EcoRoute ML service: the prediction adjustment pipeline of              *)
(* ml_service/app.py (startup model loading, the /predict handler) and the *)
(* tables and row layout of ml_service/train_model.py.                     *)
(*                                                                         *)
(* Python floats are modelled as exact rationals [n, d] in lowest terms.   *)
(* Every equality checked below relates the result of an arithmetic        *)
(* expression of the code to the same expression over the same operands,   *)
(* so IEEE rounding does not decide any of them.                           *)
(***************************************************************************)
EXTENDS Integers, Sequences, FiniteSets, TLC

(***************************************************************************)
(* Bounds of the model.                                                    *)
(***************************************************************************)
\* the artifact on disk holds one of NumModels different regressors
NumModels == 2
\* the trainer's data set holds at most MaxRows rows (n in generate_data)
MaxRows == 1

(***************************************************************************)
(* Exact rational arithmetic standing for float arithmetic.                *)
(***************************************************************************)
Abs(i) == IF i < 0 THEN -i ELSE i

RECURSIVE GCD(_, _)
GCD(a, b) == IF b = 0 THEN a ELSE GCD(b, a % b)

\* the rational n/d (d # 0) in lowest terms with a positive denominator
R(n, d) ==
    LET g == GCD(Abs(n), Abs(d))
        s == IF d < 0 THEN -1 ELSE 1
    IN  [n |-> (s * n) \div g, d |-> (s * d) \div g]

RMul(a, b) == R(a.n * b.n, a.d * b.d)
RDiv(a, b) == R(a.n * b.d, a.d * b.n)
RAdd(a, b) == R(a.n * b.d + b.n * a.d, a.d * b.d)
RLe(a, b) == a.n * b.d <= b.n * a.d
\* Python's max(a, b): b only when it is strictly greater
RMax(a, b) == IF RLe(b, a) THEN a ELSE b

(***************************************************************************)
(* app.py: the vehicle registry, the route map, the request inputs.        *)
(***************************************************************************)
VehicleFactorsLiteral ==
    [ car        |-> [weight |-> R(1200, 1),   co2_factor |-> R(10, 10),  energy_mode |-> "fuel"],
      van        |-> [weight |-> R(2500, 1),   co2_factor |-> R(14, 10),  energy_mode |-> "fuel"],
      bike       |-> [weight |-> R(200, 1),    co2_factor |-> R(2, 10),   energy_mode |-> "fuel"],
      ev         |-> [weight |-> R(1800, 1),   co2_factor |-> R(0, 10),   energy_mode |-> "electric"],
      cargo_ship |-> [weight |-> R(500000, 1), co2_factor |-> R(80, 10),  energy_mode |-> "fuel"],
      tanker     |-> [weight |-> R(700000, 1), co2_factor |-> R(100, 10), energy_mode |-> "fuel"],
      ferry      |-> [weight |-> R(100000, 1), co2_factor |-> R(50, 10),  energy_mode |-> "fuel"] ]

route_map == [fast |-> 0, eco |-> 1, safe |-> 2]

\* the strings a caller may send as Features.vehicle: the seven keys and two others
VehicleStrings == DOMAIN VehicleFactorsLiteral \cup {"truck", "Cargo_Ship"}
\* the strings a caller may send as Features.route_type
RouteStrings == DOMAIN route_map \cup {"scenic"}
DistanceValues == { R(0, 1), R(50, 1) }
\* caller weights; none of them is the weight of a registry entry
WeightValues == { R(1000, 1), R(3000, 1) }

\* class Features: one request body after validation
FeaturesSet ==
    [ distance_km      : DistanceValues,
      elevation_gain_m : { R(120, 1) },
      avg_speed_kph    : { R(50, 1) },
      turns            : { R(7, 1) },
      humps            : { R(3, 1) },
      weight_kg        : WeightValues,
      traffic_index    : { R(3, 2) },
      route_type       : RouteStrings,
      vehicle          : VehicleStrings ]

Workers == {"w1", "w2"}
ModelIds == 1..NumModels
\* what MODEL_PATH may hold: nothing, a file joblib cannot load, a pickled regressor
ArtifactStates ==
    {[kind |-> "missing"], [kind |-> "corrupt"]} \cup {[kind |-> "model", id |-> m] : m \in ModelIds}

VARIABLES
    artifact,         \* what MODEL_PATH holds
    phase,            \* "startup", "serving" or "failed"
    model,            \* the global model: None until load_model assigns it
    VEHICLE_FACTORS,  \* the global registry of app.py
    pc,               \* per worker thread: "idle", "received", "vectorized", "done"
    feat,             \* per worker: the request being handled
    v,                \* per worker: the local v (resolved profile)
    X,                \* per worker: the local X (model input row)
    pred,             \* per worker: the local pred (raw prediction)
    scaled,           \* per worker: the locals fuel, co2 after lines 68-69
    resp,             \* per worker: the returned dict
    dataset,          \* trainer: the list rows of generate_data
    drawn,            \* trainer: the vehicle and route_type drawn for each row
    tpc               \* trainer: "generating" or "saved"

vars == <<artifact, phase, model, VEHICLE_FACTORS, pc, feat, v, X, pred, scaled, resp,
          dataset, drawn, tpc>>
serviceVars == <<phase, model, VEHICLE_FACTORS, pc, feat, v, X, pred, scaled, resp>>
trainerVars == <<dataset, drawn, tpc>>

None == [none |-> TRUE]
NoPred == <<R(0, 1), R(0, 1)>>

\* route_map.get(feat.route_type, 0)
RouteTypeVal(route_type) ==
    IF route_type \in DOMAIN route_map THEN route_map[route_type] ELSE 0

\* variant of Lookup: the fallback entry is "van"
LookupDefaultVan(reg, vehicle) ==
    IF vehicle \in DOMAIN reg THEN reg[vehicle] ELSE reg["van"]

\* VEHICLE_FACTORS.get(feat.vehicle, VEHICLE_FACTORS["car"])
Lookup(reg, vehicle) ==
    IF vehicle \in DOMAIN reg THEN reg[vehicle] ELSE reg["car"]

\* variant of BuildX: turns and humps in each other's place
BuildXSwapped(f, base_weight, route_type_val) ==
    << f.distance_km, f.elevation_gain_m, f.avg_speed_kph, f.humps, f.turns,
       base_weight, f.traffic_index, R(route_type_val, 1) >>

\* variant of BuildX: the caller's weight_kg in place of the profile weight
BuildXCallerWeight(f, base_weight, route_type_val) ==
    << f.distance_km, f.elevation_gain_m, f.avg_speed_kph, f.turns, f.humps,
       f.weight_kg, f.traffic_index, R(route_type_val, 1) >>

\* X = np.array([[...]])
BuildX(f, base_weight, route_type_val) ==
    << f.distance_km,
       f.elevation_gain_m,
       f.avg_speed_kph,
       f.turns,
       f.humps,
       base_weight,
       f.traffic_index,
       R(route_type_val, 1) >>

(***************************************************************************)
(* The regressor is opaque: a deterministic function of the model loaded   *)
(* and of all eight inputs, with outputs of either sign.                   *)
(***************************************************************************)
RAW_FUEL == << R(10, 1), R(100, 1), R(-3, 2), R(0, 1), R(7, 4) >>
RAW_CO2 == << R(231, 10), R(200, 1), R(-1, 1), R(0, 1), R(5, 3), R(9, 1), R(1, 8) >>

RECURSIVE RowHash(_, _)
RowHash(row, i) ==
    IF i = 0 THEN 0 ELSE i * (Abs(row[i].n) + 3 * row[i].d) + RowHash(row, i - 1)

\* model.predict(X)[0], then float(pred[0]), float(pred[1])
ModelPredict(m, row) ==
    LET h == RowHash(row, Len(row)) + m.id
    IN  << RAW_FUEL[(h % Len(RAW_FUEL)) + 1], RAW_CO2[(h % Len(RAW_CO2)) + 1] >>

\* co2 *= co2_factor
ScaleCo2(co2, co2_factor) == RMul(co2, co2_factor)

\* variant of ScaleFuel: without the floor of 1.0
ScaleFuelNoFloor(fuel, co2_factor) == RMul(fuel, RDiv(co2_factor, R(2, 1)))

\* fuel *= max(1.0, co2_factor / 2.0)
ScaleFuel(fuel, co2_factor) == RMul(fuel, RMax(R(1, 1), RDiv(co2_factor, R(2, 1))))

\* variant of MarineAdjust: "ferry" left out of the list of ships
MarineAdjustNoFerry(f, x) ==
    IF f.vehicle \in {"cargo_ship", "tanker"}
    THEN IF f.route_type = "eco" THEN RMul(x, R(85, 100))
         ELSE IF f.route_type = "safe" THEN RMul(x, R(12, 10))
         ELSE x
    ELSE x

\* the ship branch: feat.vehicle in [...] and the eco / safe factors
MarineAdjust(f, x) ==
    IF f.vehicle \in {"cargo_ship", "tanker", "ferry"}
    THEN IF f.route_type = "eco" THEN RMul(x, R(85, 100))
         ELSE IF f.route_type = "safe" THEN RMul(x, R(12, 10))
         ELSE x
    ELSE x

\* lines 68-69 of predict: the locals fuel, co2 after the vehicle scaling
Scale(prof, raw) ==
    << ScaleFuel(raw[1], prof.co2_factor), ScaleCo2(raw[2], prof.co2_factor) >>

\* variant of Respond: the electric branch returns the scaled fuel
RespondKeepsFuel(f, prof, sc) ==
    IF prof.energy_mode = "electric"
    THEN [ fuel_l     |-> sc[1],
           energy_kwh |-> RMul(f.distance_km, R(2, 10)),
           co2_kg     |-> sc[2] ]
    ELSE [ fuel_l |-> MarineAdjust(f, sc[1]),
           co2_kg |-> MarineAdjust(f, sc[2]) ]

\* variant of Respond: every result carries energy_kwh
RespondAlwaysEnergy(f, prof, sc) ==
    IF prof.energy_mode = "electric"
    THEN [ fuel_l     |-> R(0, 1),
           energy_kwh |-> RMul(f.distance_km, R(2, 10)),
           co2_kg     |-> sc[2] ]
    ELSE [ fuel_l     |-> MarineAdjust(f, sc[1]),
           energy_kwh |-> R(0, 1),
           co2_kg     |-> MarineAdjust(f, sc[2]) ]

\* lines 71-95 of predict: from the scaled values to the returned dict
Respond(f, prof, sc) ==
    IF prof.energy_mode = "electric"
    THEN [ fuel_l     |-> R(0, 1),
           energy_kwh |-> RMul(f.distance_km, R(2, 10)),
           co2_kg     |-> sc[2] ]
    ELSE [ fuel_l |-> MarineAdjust(f, sc[1]),
           co2_kg |-> MarineAdjust(f, sc[2]) ]

\* predict(feat) run alone against a registry and a loaded model
Predict(f, reg, m) ==
    LET prof == Lookup(reg, f.vehicle)
        row == BuildX(f, prof.weight, RouteTypeVal(f.route_type))
    IN  Respond(f, prof, Scale(prof, ModelPredict(m, row)))

(***************************************************************************)
(* The service.                                                            *)
(***************************************************************************)
Init ==
    /\ artifact \in ArtifactStates
    /\ phase = "startup"
    /\ model = None
    /\ VEHICLE_FACTORS = VehicleFactorsLiteral
    /\ pc = [w \in Workers |-> "idle"]
    /\ feat = [w \in Workers |-> None]
    /\ v = [w \in Workers |-> None]
    /\ X = [w \in Workers |-> <<>>]
    /\ pred = [w \in Workers |-> NoPred]
    /\ scaled = [w \in Workers |-> NoPred]
    /\ resp = [w \in Workers |-> None]
    /\ dataset = <<>>
    /\ drawn = <<>>
    /\ tpc = "generating"

\* variant of LoadModel: a missing or unreadable artifact is replaced by a default model
LoadModelWithDefault ==
    /\ phase = "startup"
    /\ model' = IF artifact.kind = "model" THEN [id |-> artifact.id] ELSE [id |-> 1]
    /\ phase' = "serving"
    /\ UNCHANGED <<artifact, VEHICLE_FACTORS, pc, feat, v, X, pred, scaled, resp, trainerVars>>

\* @app.on_event("startup") load_model
LoadModel ==
    /\ phase = "startup"
    /\ IF artifact.kind = "missing"
       THEN \* os.path.exists is false: RuntimeError
            /\ phase' = "failed"
            /\ model' = model
       ELSE IF artifact.kind = "corrupt"
       THEN \* joblib.load raises
            /\ phase' = "failed"
            /\ model' = model
       ELSE /\ model' = [id |-> artifact.id]
            /\ phase' = "serving"
    /\ UNCHANGED <<artifact, VEHICLE_FACTORS, pc, feat, v, X, pred, scaled, resp, trainerVars>>

\* @app.post("/predict"): a request is parsed into Features and handed to a thread
Receive(w) ==
    /\ phase = "serving"
    /\ pc[w] = "idle"
    /\ \E f \in FeaturesSet : feat' = [feat EXCEPT ![w] = f]
    /\ pc' = [pc EXCEPT ![w] = "received"]
    /\ UNCHANGED <<artifact, phase, model, VEHICLE_FACTORS, v, X, pred, scaled, resp, trainerVars>>

\* variant of Vectorize: the caller's weight_kg is stored into the registry entry used
VectorizeWritesRegistry(w) ==
    /\ pc[w] = "received"
    /\ LET key == IF feat[w].vehicle \in DOMAIN VEHICLE_FACTORS THEN feat[w].vehicle ELSE "car"
           prof == [VEHICLE_FACTORS[key] EXCEPT !.weight = feat[w].weight_kg]
       IN  /\ VEHICLE_FACTORS' = [VEHICLE_FACTORS EXCEPT ![key] = prof]
           /\ v' = [v EXCEPT ![w] = prof]
           /\ X' = [X EXCEPT ![w] =
                      BuildX(feat[w], prof.weight, RouteTypeVal(feat[w].route_type))]
    /\ pc' = [pc EXCEPT ![w] = "vectorized"]
    /\ UNCHANGED <<artifact, phase, model, feat, pred, scaled, resp, trainerVars>>

\* predict, lines 42-61: reads the registry, builds X
Vectorize(w) ==
    /\ pc[w] = "received"
    /\ LET prof == Lookup(VEHICLE_FACTORS, feat[w].vehicle)
       IN  /\ v' = [v EXCEPT ![w] = prof]
           /\ X' = [X EXCEPT ![w] =
                      BuildX(feat[w], prof.weight, RouteTypeVal(feat[w].route_type))]
    /\ pc' = [pc EXCEPT ![w] = "vectorized"]
    /\ UNCHANGED <<artifact, phase, model, VEHICLE_FACTORS, feat, pred, scaled, resp, trainerVars>>

\* predict, lines 63-95: reads the model, adjusts, returns
InferAdjust(w) ==
    /\ pc[w] = "vectorized"
    /\ LET raw == ModelPredict(model, X[w])
           sc == Scale(v[w], raw)
       IN  /\ pred' = [pred EXCEPT ![w] = raw]
           /\ scaled' = [scaled EXCEPT ![w] = sc]
           /\ resp' = [resp EXCEPT ![w] = Respond(feat[w], v[w], sc)]
    /\ pc' = [pc EXCEPT ![w] = "done"]
    /\ UNCHANGED <<artifact, phase, model, VEHICLE_FACTORS, feat, v, X, trainerVars>>

\* the response is sent and the thread is free again
Complete(w) ==
    /\ pc[w] = "done"
    /\ pc' = [pc EXCEPT ![w] = "idle"]
    /\ feat' = [feat EXCEPT ![w] = None]
    /\ v' = [v EXCEPT ![w] = None]
    /\ X' = [X EXCEPT ![w] = <<>>]
    /\ pred' = [pred EXCEPT ![w] = NoPred]
    /\ scaled' = [scaled EXCEPT ![w] = NoPred]
    /\ resp' = [resp EXCEPT ![w] = None]
    /\ UNCHANGED <<artifact, phase, model, VEHICLE_FACTORS, trainerVars>>

Next ==
    \/ LoadModel
    \/ \E w \in Workers : Receive(w)
    \/ \E w \in Workers : Vectorize(w)
    \/ \E w \in Workers : InferAdjust(w)
    \/ \E w \in Workers : Complete(w)

Spec == Init /\ [][Next]_vars

(***************************************************************************)
(* train_model.py: the trainer's own tables, one row of generate_data,     *)
(* and train_model.                                                        *)
(***************************************************************************)
\* variant of TRAIN_VEHICLE_FACTORS: the trainer's van weighs 2600
TrainFactorsSkewed ==
    [ car        |-> [weight |-> R(1200, 1),   co2_factor |-> R(10, 10),  energy_mode |-> "fuel"],
      van        |-> [weight |-> R(2600, 1),   co2_factor |-> R(14, 10),  energy_mode |-> "fuel"],
      bike       |-> [weight |-> R(200, 1),    co2_factor |-> R(2, 10),   energy_mode |-> "fuel"],
      ev         |-> [weight |-> R(1800, 1),   co2_factor |-> R(0, 10),   energy_mode |-> "electric"],
      cargo_ship |-> [weight |-> R(500000, 1), co2_factor |-> R(80, 10),  energy_mode |-> "fuel"],
      tanker     |-> [weight |-> R(700000, 1), co2_factor |-> R(100, 10), energy_mode |-> "fuel"],
      ferry      |-> [weight |-> R(100000, 1), co2_factor |-> R(50, 10),  energy_mode |-> "fuel"] ]

TRAIN_VEHICLE_FACTORS ==
    [ car        |-> [weight |-> R(1200, 1),   co2_factor |-> R(10, 10),  energy_mode |-> "fuel"],
      van        |-> [weight |-> R(2500, 1),   co2_factor |-> R(14, 10),  energy_mode |-> "fuel"],
      bike       |-> [weight |-> R(200, 1),    co2_factor |-> R(2, 10),   energy_mode |-> "fuel"],
      ev         |-> [weight |-> R(1800, 1),   co2_factor |-> R(0, 10),   energy_mode |-> "electric"],
      cargo_ship |-> [weight |-> R(500000, 1), co2_factor |-> R(80, 10),  energy_mode |-> "fuel"],
      tanker     |-> [weight |-> R(700000, 1), co2_factor |-> R(100, 10), energy_mode |-> "fuel"],
      ferry      |-> [weight |-> R(100000, 1), co2_factor |-> R(50, 10),  energy_mode |-> "fuel"] ]

ROUTE_TYPES == [fast |-> 0, eco |-> 1, safe |-> 2]

\* the columns of the DataFrame generate_data returns
COLUMNS ==
    << "distance_km", "elevation_gain_m", "avg_speed_kph", "turns", "humps",
       "weight_kg", "traffic_index", "route_type", "fuel_l", "co2_kg" >>

\* the draws of one loop iteration; u_fuel, u_co2 are the two uniform noise
\* draws in units of the branch's amplitude (0.05, or 0.1 on "safe")
SampleSet ==
    [ distance_km      : { R(50, 1) },
      elevation_gain_m : { R(120, 1) },
      avg_speed_kph    : { R(50, 1) },
      turns            : { R(7, 1) },
      humps            : { R(3, 1) },
      traffic_index    : { R(3, 2) },
      vehicle          : DOMAIN TRAIN_VEHICLE_FACTORS,
      route_type       : DOMAIN ROUTE_TYPES,
      u_fuel           : { -1, 1 },
      u_co2            : { -1, 1 } ]

\* the route adjustment factor: 0.9 +- 0.05, 1.2 +- 0.1, 1.05 +- 0.05
RouteNoise(route_type, u) ==
    IF route_type = "eco" THEN RAdd(R(9, 10), R(5 * u, 100))
    ELSE IF route_type = "safe" THEN RAdd(R(12, 10), R(u, 10))
    ELSE RAdd(R(105, 100), R(5 * u, 100))

\* one iteration of the loop of generate_data: the row appended
GenerateRow(smp) ==
    LET vf == TRAIN_VEHICLE_FACTORS[smp.vehicle]
        weight_kg == vf.weight
        co2_factor == vf.co2_factor
        base_fuel == RAdd(RDiv(smp.distance_km, R(12, 1)),
                          RMul(RDiv(weight_kg, R(1000, 1)), R(5, 10)))
        base_co2 == RMul(base_fuel, R(231, 100))
        adj_fuel == RMul(base_fuel, RouteNoise(smp.route_type, smp.u_fuel))
        adj_co2 == RMul(base_co2, RouteNoise(smp.route_type, smp.u_co2))
        fuel == RMul(adj_fuel, IF vf.energy_mode = "fuel" THEN R(1, 1) ELSE R(5, 10))
        co2 == RMul(adj_co2, co2_factor)
    IN  << smp.distance_km, smp.elevation_gain_m, smp.avg_speed_kph, smp.turns, smp.humps,
           weight_kg, smp.traffic_index, R(ROUTE_TYPES[smp.route_type], 1), fuel, co2 >>

\* X = df.drop(["fuel_l","co2_kg"], axis=1): the positions of the columns kept
KeptColumns ==
    SelectSeq([i \in 1..Len(COLUMNS) |-> i], LAMBDA i : COLUMNS[i] \notin {"fuel_l", "co2_kg"})

\* the input part of a row, as the regressor is fitted on it
TrainInputs(row) == [j \in 1..Len(KeptColumns) |-> row[KeptColumns[j]]]

\* the regressor fitted on a data set (seeded, hence a function of the rows)
FittedModel(rows) ==
    LET RECURSIVE Sum(_)
        Sum(i) == IF i = 0 THEN 0 ELSE RowHash(rows[i], Len(rows[i])) + Sum(i - 1)
    IN  (Sum(Len(rows)) % NumModels) + 1

\* generate_data: one pass of the loop
AppendRow ==
    /\ tpc = "generating"
    /\ Len(dataset) < MaxRows
    /\ \E smp \in SampleSet :
          /\ dataset' = Append(dataset, GenerateRow(smp))
          /\ drawn' = Append(drawn, [vehicle |-> smp.vehicle, route_type |-> smp.route_type])
    /\ UNCHANGED <<artifact, serviceVars, tpc>>

\* train_model: after generate_data returns, fit and joblib.dump
FitAndDump ==
    /\ tpc = "generating"
    /\ Len(dataset) = MaxRows
    /\ artifact' = [kind |-> "model", id |-> FittedModel(dataset)]
    /\ tpc' = "saved"
    /\ UNCHANGED <<serviceVars, dataset, drawn>>

NextTrain ==
    \/ AppendRow
    \/ FitAndDump

SpecTrain == Init /\ [][NextTrain]_vars

(***************************************************************************)
(* Properties.                                                             *)
(***************************************************************************)
Vectorized(w) == pc[w] \in {"vectorized", "done"}
Done(w) == pc[w] = "done"
KnownVehicles == {"car", "van", "bike", "ev", "cargo_ship", "tanker", "ferry"}
Ships == {"cargo_ship", "tanker", "ferry"}
LoadedModels == {[id |-> m] : m \in ModelIds}

\* C1: a request whose resolved profile is electric returns fuel_l = 0.0,
\* energy_kwh = distance_km * 0.2 and co2_kg = co2_raw * co2_factor, whatever
\* the distance, the route_type and the raw prediction; no route adjustment
\* enters the result.
C1_ElectricResult ==
    \A w \in Workers :
        (Done(w) /\ v[w].energy_mode = "electric") =>
            resp[w] = [ fuel_l     |-> R(0, 1),
                        energy_kwh |-> RMul(feat[w].distance_km, R(1, 5)),
                        co2_kg     |-> RMul(pred[w][2], v[w].co2_factor) ]

C1_Witness ==
    \E w \in Workers :
        /\ Done(w)
        /\ v[w].energy_mode = "electric"
        /\ feat[w].route_type = "eco"
        /\ feat[w].distance_km = R(50, 1)
        /\ pred[w][1] # R(0, 1)
        /\ pred[w][2] # R(0, 1)
        /\ resp[w].energy_kwh = R(10, 1)

\* the multiplier C2 states for a vehicle string and a route_type string
StatedRouteMultiplier(vehicle, route_type) ==
    IF vehicle \in Ships /\ route_type = "eco" THEN R(85, 100)
    ELSE IF vehicle \in Ships /\ route_type = "safe" THEN R(12, 10)
    ELSE R(1, 1)

\* C2: for a fuel-mode request, fuel and co2 after the vehicle scaling are
\* both multiplied by the same number: 0.85 for a ship on "eco", 1.2 for a
\* ship on "safe", and 1 in every other case.
C2_RouteMultiplier ==
    \A w \in Workers :
        (Done(w) /\ v[w].energy_mode = "fuel") =>
            LET m == StatedRouteMultiplier(feat[w].vehicle, feat[w].route_type)
            IN  /\ resp[w].fuel_l = RMul(scaled[w][1], m)
                /\ resp[w].co2_kg = RMul(scaled[w][2], m)

C2_Witness ==
    \E w \in Workers :
        /\ Done(w)
        /\ feat[w].vehicle = "ferry"
        /\ feat[w].route_type = "safe"
        /\ scaled[w][1] # R(0, 1)
        /\ scaled[w][2] # R(0, 1)
        /\ resp[w].fuel_l # scaled[w][1]

\* the registry entries as (weight, co2_factor, energy_mode)
StatedProfile(vehicle) ==
    CASE vehicle = "car"        -> <<1200, R(1, 1), "fuel">>
      [] vehicle = "van"        -> <<2500, R(7, 5), "fuel">>
      [] vehicle = "bike"       -> <<200, R(1, 5), "fuel">>
      [] vehicle = "ev"         -> <<1800, R(0, 1), "electric">>
      [] vehicle = "cargo_ship" -> <<500000, R(8, 1), "fuel">>
      [] vehicle = "tanker"     -> <<700000, R(10, 1), "fuel">>
      [] vehicle = "ferry"      -> <<100000, R(5, 1), "fuel">>
      [] OTHER                  -> <<1200, R(1, 1), "fuel">>

\* C3: the lookup never fails; a known identifier resolves to its own entry
\* and every other string to the "car" entry (1200, 1.0, fuel).
C3_LookupTotal ==
    \A w \in Workers :
        /\ pc[w] = "received" => ENABLED Vectorize(w)
        /\ Vectorized(w) =>
              /\ <<v[w].weight.n, v[w].co2_factor, v[w].energy_mode>> = StatedProfile(feat[w].vehicle)
              /\ v[w].weight.d = 1
              /\ feat[w].vehicle \notin KnownVehicles =>
                    <<v[w].weight, v[w].co2_factor, v[w].energy_mode>> = <<R(1200, 1), R(1, 1), "fuel">>

C3_Witness ==
    \E w \in Workers :
        /\ Vectorized(w)
        /\ feat[w].vehicle = "Cargo_Ship"
        /\ v[w].weight = R(1200, 1)

\* the names of the columns the regressor is fitted on, in order
TrainFeatureNames == [j \in 1..Len(KeptColumns) |-> COLUMNS[KeptColumns[j]]]

\* the trainer's draw that carries the same trip as a request
SampleOf(f) ==
    [ distance_km      |-> f.distance_km,
      elevation_gain_m |-> f.elevation_gain_m,
      avg_speed_kph    |-> f.avg_speed_kph,
      turns            |-> f.turns,
      humps            |-> f.humps,
      traffic_index    |-> f.traffic_index,
      vehicle          |-> f.vehicle,
      route_type       |-> f.route_type,
      u_fuel           |-> 1,
      u_co2            |-> -1 ]

\* C4: the row passed to the model has 8 elements, in the order
\* distance_km, elevation_gain_m, avg_speed_kph, turns, humps, profile
\* weight, traffic_index, route code, which is the order of the trainer's
\* input columns; element 5 is the profile's weight, not the caller's
\* weight_kg; element 7 is 0, 1, 2 for fast, eco, safe and 0 otherwise.
C4_VectorLayout ==
    \A w \in Workers :
        Vectorized(w) =>
            LET f == feat[w]
                code == CASE f.route_type = "fast" -> 0
                          [] f.route_type = "eco"  -> 1
                          [] f.route_type = "safe" -> 2
                          [] OTHER                 -> 0
            IN  /\ Len(X[w]) = 8
                /\ X[w] = << f.distance_km, f.elevation_gain_m, f.avg_speed_kph, f.turns, f.humps,
                             R(StatedProfile(f.vehicle)[1], 1), f.traffic_index, R(code, 1) >>
                /\ X[w][6] = v[w].weight
                /\ X[w][6] # f.weight_kg
                /\ TrainFeatureNames =
                      << "distance_km", "elevation_gain_m", "avg_speed_kph", "turns", "humps",
                         "weight_kg", "traffic_index", "route_type" >>
                /\ (f.vehicle \in KnownVehicles /\ f.route_type \in {"fast", "eco", "safe"}) =>
                      X[w] = TrainInputs(GenerateRow(SampleOf(f)))

C4_Witness ==
    \E w \in Workers :
        /\ Vectorized(w)
        /\ feat[w].vehicle = "van"
        /\ feat[w].route_type = "safe"
        /\ feat[w].weight_kg = R(3000, 1)
        /\ X[w][6] = R(2500, 1)
        /\ X[w][8] = R(2, 1)

\* C5: for a fuel-mode request the fuel after the vehicle scaling is
\* fuel_raw * max(1.0, co2_factor / 2.0); when co2_factor <= 2.0 the
\* multiplier is 1, the returned fuel_l is the raw fuel and co2_kg is
\* co2_raw * co2_factor.
C5_FuelScaling ==
    \A w \in Workers :
        (Done(w) /\ v[w].energy_mode = "fuel") =>
            LET cf == v[w].co2_factor
                light == cf.n <= 2 * cf.d
            IN  /\ scaled[w][1] =
                      RMul(pred[w][1], IF light THEN R(1, 1) ELSE R(cf.n, 2 * cf.d))
                /\ light => /\ resp[w].fuel_l = pred[w][1]
                            /\ resp[w].co2_kg = RMul(pred[w][2], cf)

C5_Witness ==
    \E w \in Workers :
        /\ Done(w)
        /\ feat[w].vehicle = "truck"
        /\ feat[w].route_type = "eco"
        /\ pred[w][1] # R(0, 1)
        /\ resp[w].fuel_l = pred[w][1]

C7_ResultShape ==
    \A w \in Workers :
        Done(w) =>
            /\ ("energy_kwh" \in DOMAIN resp[w]) <=> (v[w].energy_mode = "electric")
            /\ {"fuel_l", "co2_kg"} \subseteq DOMAIN resp[w]
            /\ v[w].energy_mode = "fuel" => DOMAIN resp[w] = {"fuel_l", "co2_kg"}

C7_Witness ==
    \E w \in Workers :
        /\ Done(w)
        /\ feat[w].vehicle = "tanker"
        /\ DOMAIN resp[w] = {"fuel_l", "co2_kg"}

\* C8: the trainer's tables equal the server's: the same 7 keys with the
\* same entries, the same route codes; the weight and the route code written
\* into each training row are those the server feeds the model for the same
\* vehicle and route_type.
C8_TablesAgree ==
    /\ DOMAIN TRAIN_VEHICLE_FACTORS = KnownVehicles
    /\ DOMAIN VEHICLE_FACTORS = KnownVehicles
    /\ \A k \in KnownVehicles : TRAIN_VEHICLE_FACTORS[k] = VEHICLE_FACTORS[k]
    /\ ROUTE_TYPES = route_map
    /\ \A i \in 1..Len(dataset) :
          /\ dataset[i][6] = Lookup(VEHICLE_FACTORS, drawn[i].vehicle).weight
          /\ dataset[i][8] = R(RouteTypeVal(drawn[i].route_type), 1)

C8_Witness ==
    /\ Len(dataset) >= 1
    /\ drawn[1].vehicle = "van"
    /\ drawn[1].route_type = "safe"
    /\ dataset[1][6] = R(2500, 1)
    /\ dataset[1][8] = R(2, 1)

\* C9: handling a request writes neither the registry nor the model; under
\* every interleaving of the worker threads each request returns what it
\* returns when run alone, and the registry stays the initial 7-entry table.
C9_NoSharedWrites ==
    /\ [](VEHICLE_FACTORS = VehicleFactorsLiteral)
    /\ [](\A w \in Workers :
             Done(w) => resp[w] = Predict(feat[w], VehicleFactorsLiteral, model))
    /\ [][phase = "serving" => (model' = model /\ VEHICLE_FACTORS' = VEHICLE_FACTORS)]_vars

C9_Witness ==
    \E a, b \in Workers :
        /\ a # b
        /\ pc[a] = "done"
        /\ pc[b] = "vectorized"
        /\ feat[a].vehicle = "car"
        /\ feat[b].vehicle = "car"
        /\ feat[a].weight_kg # feat[b].weight_kg

\* two requests that agree on every field but weight_kg
SameButWeight(f, g) == [f EXCEPT !.weight_kg = g.weight_kg] = g

\* C10: weight_kg has no influence: two requests that differ in weight_kg
\* only have equal model inputs and equal returned records.
C10_WeightIgnored ==
    \A a, b \in Workers :
        (Vectorized(a) /\ Vectorized(b) /\ SameButWeight(feat[a], feat[b])) =>
            /\ X[a] = X[b]
            /\ (Done(a) /\ Done(b)) => resp[a] = resp[b]

C10_Witness ==
    \E a, b \in Workers :
        /\ Done(a)
        /\ Done(b)
        /\ SameButWeight(feat[a], feat[b])
        /\ feat[a].weight_kg # feat[b].weight_kg
        /\ resp[a].fuel_l # R(0, 1)

====
